---- MODULE Spec2Model ----
(***************************************************************************)
(* Model of src/app.py, the Streamlit virtual try-on form: the image       *)
(* pre-processing (resize_image, encode_image_to_base64), the garment URL  *)
(* loader (validate_image_url), the API client                             *)
(* (call_change_clothes_api_async) and the script runs of main() with the  *)
(* session's "processing" flag.                                            *)
(*                                                                         *)
(* Python strings are TLA+ strings; Python's None is the value None below. *)
(* Python floats are IEEE-754 binary64 values [m, e]: m the significand's  *)
(* bits, most significant first, e the exponent of its last bit.           *)
(***************************************************************************)
EXTENDS Integers, Sequences, FiniteSets, TLC

VARIABLES
    \* ---- one browser session running main() ----
    session_state,   \* st.session_state: [has |-> 'processing' is set, processing |-> its value]
    widgets,         \* the widget values the browser holds between script runs
    button_enabled,  \* whether the generate button, as last rendered, can be clicked
    pc,              \* where the script run is
    local,           \* the local variables of the current run of main()
    form_data,       \* the multipart fields of the current call
    posts,           \* session.post calls made by the current invocation of the client
    response,        \* what the POST ended in
    result,          \* the dict the client returned
    hint,            \* the remediation hint main() rendered for the result
    secrets,         \* st.secrets["API_KEY"], None when the key is missing
    busy_at_press,   \* history: session_state.processing as it was when the button branch was entered
    \* ---- resize_image applied to one image ----
    image_size, resized_size, resize_pc,
    \* ---- the form fields built from one description ----
    desc_in, desc_form, desc_pc,
    \* ---- validate_image_url applied to one URL ----
    url_fetch, url_pc, url_ret, url_decoded

mainVars   == <<session_state, widgets, button_enabled, pc, local, form_data, posts,
                response, result, hint, busy_at_press, secrets>>
resizeVars == <<image_size, resized_size, resize_pc>>
descVars   == <<desc_in, desc_form, desc_pc>>
urlVars    == <<url_fetch, url_pc, url_ret, url_decoded>>
pureVars   == <<resizeVars, descVars, urlVars>>
vars       == <<mainVars, pureVars>>

\* Python's None
None == "<None>"

Max(a, b) == IF a >= b THEN a ELSE b

(***************************************************************************)
(* Python float arithmetic (binary64, round-to-nearest, ties-to-even), as  *)
(* used by resize_image: int / int, int * float, int(float).               *)
(***************************************************************************)
MantBits == 53
LimbBits == 13
FracLimbs == 6

RECURSIVE Pow2(_)
Pow2(n) == IF n = 0 THEN 1 ELSE 2 * Pow2(n - 1)

LimbBase == Pow2(LimbBits)

RECURSIVE BitsOf(_)
BitsOf(n) == IF n = 0 THEN <<>> ELSE BitsOf(n \div 2) \o <<n % 2>>

RECURSIVE NatOf(_)
NatOf(bits) ==
    IF bits = <<>> THEN 0
    ELSE 2 * NatOf(SubSeq(bits, 1, Len(bits) - 1)) + bits[Len(bits)]

\* the LimbBits bits of a limb, most significant first
LimbToBits(d) == [k \in 1..LimbBits |-> (d \div Pow2(LimbBits - k)) % 2]

\* limbs (most significant first) to bits
LimbsToBits(ls) ==
    [k \in 1..(LimbBits * Len(ls)) |->
        LimbToBits(ls[((k - 1) \div LimbBits) + 1])[((k - 1) % LimbBits) + 1]]

\* bits (most significant first) to limbs, left-padded with zeros
BitsToLimbs(bits) ==
    LET n    == (Len(bits) + LimbBits - 1) \div LimbBits
        pad  == n * LimbBits - Len(bits)
        b(k) == IF k <= pad THEN 0 ELSE bits[k - pad]
    IN  [i \in 1..n |-> NatOf([j \in 1..LimbBits |-> b((i - 1) * LimbBits + j)])]

StripZeros(bits) ==
    IF \A i \in 1..Len(bits) : bits[i] = 0 THEN <<>>
    ELSE LET f == CHOOSE i \in 1..Len(bits) :
                     bits[i] = 1 /\ \A j \in 1..(i - 1) : bits[j] = 0
         IN  SubSeq(bits, f, Len(bits))

\* bits + 1
Inc(bits) ==
    IF \A i \in 1..Len(bits) : bits[i] = 1
    THEN <<1>> \o [i \in 1..Len(bits) |-> 0]
    ELSE LET z == CHOOSE i \in 1..Len(bits) :
                     bits[i] = 0 /\ \A j \in (i + 1)..Len(bits) : bits[j] = 1
         IN  [i \in 1..Len(bits) |-> IF i < z THEN bits[i] ELSE IF i = z THEN 1 ELSE 0]

\* the binary64 nearest to sig * 2^e (plus a nonzero tail when sticky), ties to even
RoundNearestEven(sig, e, sticky) ==
    LET s == StripZeros(sig)
        n == Len(s)
    IN  IF n <= MantBits THEN [m |-> s, e |-> e]
        ELSE LET keep  == SubSeq(s, 1, MantBits)
                 guard == s[MantBits + 1]
                 rest  == sticky \/ \E i \in (MantBits + 2)..n : s[i] = 1
                 up    == guard = 1 /\ (rest \/ keep[MantBits] = 1)
                 r     == IF up THEN Inc(keep) ELSE keep
             IN  IF Len(r) > MantBits
                 THEN [m |-> SubSeq(r, 1, MantBits), e |-> e + (n - MantBits) + 1]
                 ELSE [m |-> r, e |-> e + (n - MantBits)]

\* long division in base 2^LimbBits: the remainder after i fraction limbs of r / y
RECURSIVE DivRem(_, _, _)
DivRem(r, y, i) == IF i = 0 THEN r ELSE (LimbBase * DivRem(r, y, i - 1)) % y

\* the first n fraction limbs of r / y
DivLimbs(r, y, n) == [i \in 1..n |-> (LimbBase * DivRem(r, y, i - 1)) \div y]

\* Python's a / b on positive ints: the correctly rounded quotient
TrueDiv(a, b) ==
    RoundNearestEven(BitsOf(a \div b) \o LimbsToBits(DivLimbs(a % b, b, FracLimbs)),
                     0 - LimbBits * FracLimbs,
                     DivRem(a % b, b, FracLimbs) # 0)

\* limbs (most significant first) times a small integer, plus carry
RECURSIVE MulLimbs(_, _, _)
MulLimbs(ls, w, carry) ==
    IF ls = <<>> THEN BitsToLimbs(BitsOf(carry))
    ELSE LET t == ls[Len(ls)] * w + carry
         IN  MulLimbs(SubSeq(ls, 1, Len(ls) - 1), w, t \div LimbBase) \o <<t % LimbBase>>

\* Python's w * f for an int w and a float f: the correctly rounded product
IntTimesFloat(w, f) ==
    RoundNearestEven(LimbsToBits(MulLimbs(BitsToLimbs(f.m), w, 0)), f.e, FALSE)

\* Python's int(f) for a non-negative float: truncation
FloatToInt(f) ==
    IF f.e >= 0 THEN NatOf(f.m) * Pow2(f.e)
    ELSE IF Len(f.m) + f.e <= 0 THEN 0
    ELSE NatOf(SubSeq(f.m, 1, Len(f.m) + f.e))

(***************************************************************************)
(* resize_image(image, max_size=1024): the size it hands to image.resize,  *)
(* or the size unchanged.                                                  *)
(***************************************************************************)
MaxSize == 1024

resize_image(size) ==
    LET width  == size[1]
        height == size[2]
    IN  IF Max(width, height) > MaxSize
        THEN LET ratio == TrueDiv(MaxSize, Max(width, height))
             IN  <<FloatToInt(IntTimesFloat(width, ratio)),
                   FloatToInt(IntTimesFloat(height, ratio))>>
        ELSE size

(***************************************************************************)
(* Python string operations used by the program.                           *)
(***************************************************************************)
CharAt(s, k) == SubSeq(s, k, k)

\* the characters str.strip() removes
IsSpace(c) == c \in {" ", "\t", "\n", "\r", "\f"}

\* s.startswith(prefix)
StartsWith(s, prefix) ==
    Len(s) >= Len(prefix) /\ SubSeq(s, 1, Len(prefix)) = prefix

\* sub in s
Contains(s, sub) ==
    \E i \in 1..(Len(s) - Len(sub) + 1) : SubSeq(s, i, i + Len(sub) - 1) = sub

LowerChar(c) ==
    CASE c = "A" -> "a" [] c = "B" -> "b" [] c = "C" -> "c" [] c = "D" -> "d"
      [] c = "E" -> "e" [] c = "F" -> "f" [] c = "G" -> "g" [] c = "H" -> "h"
      [] c = "I" -> "i" [] c = "J" -> "j" [] c = "K" -> "k" [] c = "L" -> "l"
      [] c = "M" -> "m" [] c = "N" -> "n" [] c = "O" -> "o" [] c = "P" -> "p"
      [] c = "Q" -> "q" [] c = "R" -> "r" [] c = "S" -> "s" [] c = "T" -> "t"
      [] c = "U" -> "u" [] c = "V" -> "v" [] c = "W" -> "w" [] c = "X" -> "x"
      [] c = "Y" -> "y" [] c = "Z" -> "z" [] OTHER -> c

\* s.lower(), two halves at a time
RECURSIVE Lower(_)
Lower(s) ==
    IF Len(s) = 0 THEN ""
    ELSE IF Len(s) = 1 THEN LowerChar(s)
    ELSE Lower(SubSeq(s, 1, Len(s) \div 2)) \o Lower(SubSeq(s, (Len(s) \div 2) + 1, Len(s)))

\* Strip with a fault: s.lstrip(), the right side left untrimmed
Strip_LeftOnly(s) ==
    IF \A k \in 1..Len(s) : IsSpace(CharAt(s, k)) THEN ""
    ELSE LET i == CHOOSE k \in 1..Len(s) :
                     ~IsSpace(CharAt(s, k)) /\ \A l \in 1..(k - 1) : IsSpace(CharAt(s, l))
         IN  SubSeq(s, i, Len(s))

\* s.strip()
Strip(s) ==
    IF \A k \in 1..Len(s) : IsSpace(CharAt(s, k)) THEN ""
    ELSE LET i == CHOOSE k \in 1..Len(s) :
                     ~IsSpace(CharAt(s, k)) /\ \A l \in 1..(k - 1) : IsSpace(CharAt(s, l))
             j == CHOOSE k \in 1..Len(s) :
                     ~IsSpace(CharAt(s, k)) /\ \A l \in (k + 1)..Len(s) : IsSpace(CharAt(s, l))
         IN  SubSeq(s, i, j)

\* bool(x) for None and strings
Truthy(x) == x # None /\ x # ""

(***************************************************************************)
(* call_change_clothes_api_async, lines 47-54: the form fields.            *)
(***************************************************************************)
BuildFormData(model_img_base64, garment_img, category, garment_desc) ==
    LET base == [modelImg |-> model_img_base64,
                 garmentImg |-> garment_img,
                 category |-> category]
    IN  IF Truthy(garment_desc) /\ Truthy(Strip(garment_desc))
        THEN base @@ ("garmentDesc" :> Strip(garment_desc))
        ELSE base

NoForm == [k \in {} |-> ""]

Categories == {"upper_body", "lower_body", "dresses"}

(***************************************************************************)
(* Images.  An image is [src, mode, size]: where its bytes came from, its  *)
(* PIL mode and its (width, height).  An uploaded file or fetched body is  *)
(* [name, ok, mode, size]: ok says whether Image.open can read it.         *)
(***************************************************************************)
\* lines 225-226, 261-262, 288-289, 367-368: convert('RGB') for RGBA and P only
ConvertMode(image) ==
    IF image.mode \in {"RGBA", "P"} THEN [image EXCEPT !.mode = "RGB"] ELSE image

\* the modes PIL can write as JPEG; image.save raises OSError for any other
JpegModes == {"L", "RGB", "CMYK"}

EncodeRaises(image) == image.mode \notin JpegModes

DataUriPrefix == "data:image/jpeg;base64,"

\* encode_image_to_base64: the text after the prefix stands for the base64 of
\* the JPEG bytes of this image at this size
encode_image_to_base64(image) ==
    DataUriPrefix \o image.src \o "@" \o ToString(image.size[1]) \o "x"
                  \o ToString(image.size[2])

OpenImage(file) == [src |-> file.name, mode |-> file.mode, size |-> file.size]

\* Image.open, convert, resize_image: lines 222-228, 258-264, 366-369
Normalize(file) ==
    LET converted == ConvertMode(OpenImage(file))
    IN  [converted EXCEPT !.size = resize_image(converted.size)]

(***************************************************************************)
(* validate_image_url(url), lines 116-134.  fetch is what requests.get     *)
(* ended in: [kind |-> "timeout"], [kind |-> "error", text |-> str(e)] or  *)
(* [kind |-> "response", status, content_type (None: no header), body].    *)
(***************************************************************************)
\* response.raise_for_status() raises HTTPError for these
HttpErrorStatus(status) == 400 <= status /\ status < 600

\* str() of the HTTPError raise_for_status raises
HttpErrorText(status) ==
    ToString(status) \o (IF status < 500 THEN " Client Error" ELSE " Server Error")

\* IsImageContentType with a fault: the content-type check left out
IsImageContentType_Unchecked(content_type) == TRUE

\* response.headers.get('content-type', '').startswith('image/')
IsImageContentType(content_type) ==
    StartsWith(IF content_type = None THEN "" ELSE content_type, "image/")

UrlTimeoutError  == "Request timed out. Please check the URL."
UrlNotImageError == "URL does not point to an image file"
UrlFetchErrorPrefix  == "Error loading image: "
UrlDecodeErrorPrefix == "Invalid image format: "

NoImage == [src |-> None, mode |-> None, size |-> <<0, 0>>]
UrlRet(image, error) == [image |-> image, error |-> error]

\* the whole function, as main() uses it
validate_image_url(fetch) ==
    IF fetch.kind = "timeout" THEN UrlRet(NoImage, UrlTimeoutError)
    ELSE IF fetch.kind = "error" THEN UrlRet(NoImage, UrlFetchErrorPrefix \o fetch.text)
    ELSE IF HttpErrorStatus(fetch.status)
    THEN UrlRet(NoImage, UrlFetchErrorPrefix \o HttpErrorText(fetch.status))
    ELSE IF ~IsImageContentType(fetch.content_type)
    THEN UrlRet(NoImage, UrlNotImageError)
    ELSE IF ~fetch.body.ok
    THEN UrlRet(NoImage, UrlDecodeErrorPrefix \o "cannot identify image file")
    ELSE UrlRet(OpenImage(fetch.body), None)

\* ---- the same function, statement by statement ----
\* line 119: requests.get
UrlGet ==
    /\ url_pc = "get"
    /\ IF url_fetch.kind = "response"
       THEN url_pc' = "raise_for_status" /\ UNCHANGED url_ret
       ELSE url_pc' = "done" /\ url_ret' = validate_image_url(url_fetch)
    /\ UNCHANGED <<url_fetch, url_decoded>>

\* line 120: response.raise_for_status()
UrlRaiseForStatus ==
    /\ url_pc = "raise_for_status"
    /\ IF HttpErrorStatus(url_fetch.status)
       THEN /\ url_pc' = "done"
            /\ url_ret' = UrlRet(NoImage, UrlFetchErrorPrefix \o HttpErrorText(url_fetch.status))
       ELSE url_pc' = "content_type" /\ UNCHANGED url_ret
    /\ UNCHANGED <<url_fetch, url_decoded>>

\* lines 123-125: the content-type check
UrlCheckContentType ==
    /\ url_pc = "content_type"
    /\ IF IsImageContentType(url_fetch.content_type)
       THEN url_pc' = "decode" /\ UNCHANGED url_ret
       ELSE url_pc' = "done" /\ url_ret' = UrlRet(NoImage, UrlNotImageError)
    /\ UNCHANGED <<url_fetch, url_decoded>>

\* lines 127-128 and 133-134: Image.open on the body
UrlDecode ==
    /\ url_pc = "decode"
    /\ url_decoded' = TRUE
    /\ url_pc' = "done"
    /\ url_ret' = IF url_fetch.body.ok
                  THEN UrlRet(OpenImage(url_fetch.body), None)
                  ELSE UrlRet(NoImage, UrlDecodeErrorPrefix \o "cannot identify image file")
    /\ UNCHANGED url_fetch

GarmentUrl == "https://example.com/shirt.jpg"

UrlBodies ==
    { [name |-> GarmentUrl, ok |-> TRUE,  mode |-> "RGBA", size |-> <<1288, 644>>],
      [name |-> GarmentUrl, ok |-> FALSE, mode |-> None,   size |-> <<0, 0>>] }

UrlStatuses == {200, 204, 300, 304, 404, 503}

UrlContentTypes == {None, "", "text/html", "image/png", "image/jpeg; q=1", "Image/PNG",
                    "application/image/png"}

UrlFetches ==
    { [kind |-> "timeout"],
      [kind |-> "error", text |-> "Connection refused"],
      [kind |-> "error", text |-> "Exceeded 30 redirects."] }
    \cup [kind : {"response"}, status : UrlStatuses, content_type : UrlContentTypes,
          body : UrlBodies]

(***************************************************************************)
(* The API client: call_change_clothes_api_async, lines 43-102.            *)
(***************************************************************************)
Result(resultImgUrl, maskImgUrl, error, success) ==
    [resultImgUrl |-> resultImgUrl, maskImgUrl |-> maskImgUrl,
     error |-> error, success |-> success]

NoResult   == Result(None, None, None, FALSE)
NoResponse == [kind |-> "none", status |-> 0, body |-> ""]

\* HttpErrorResult with a fault: the body text left out of the message
HttpErrorResult_NoBody(status, error_text) ==
    Result(None, None, "API Error " \o ToString(status), FALSE)

\* lines 80-87: any status but 200
HttpErrorResult(status, error_text) ==
    Result(None, None, "API Error " \o ToString(status) \o ": " \o error_text, FALSE)

TimeoutError == "Request timed out. The AI is busy, please try again."

\* TimeoutResult with a fault: 'error' left None
TimeoutResult_NoError == Result(None, None, None, FALSE)

\* lines 89-95: asyncio.TimeoutError
TimeoutResult == Result(None, None, TimeoutError, FALSE)

\* lines 96-102: any other exception, e its str()
ExceptionResult(e) == Result(None, None, "Connection error: " \o e, FALSE)

\* lines 72-79.  body is the 200 response's body: [parses, data, resultImgUrl,
\* maskImgUrl], data one of "absent", "null", "object".  response.json() raises on
\* a body that is no JSON, and None.get raises on "data": null; both land in the
\* except Exception branch.
Http200Result(body) ==
    IF ~body.parses
    THEN ExceptionResult("Attempt to decode JSON with unexpected mimetype: text/html")
    ELSE IF body.data = "null"
    THEN ExceptionResult("'NoneType' object has no attribute 'get'")
    ELSE Result(IF body.data = "object" THEN body.resultImgUrl ELSE None,
                IF body.data = "object" THEN body.maskImgUrl ELSE None,
                None, TRUE)

ResultUrl == "https://cdn.changeclothesai.online/result.png"
MaskUrl   == "https://cdn.changeclothesai.online/mask.png"

JsonBodies ==
    { [parses |-> FALSE, data |-> "absent", resultImgUrl |-> None, maskImgUrl |-> None],
      [parses |-> TRUE,  data |-> "absent", resultImgUrl |-> None, maskImgUrl |-> None],
      [parses |-> TRUE,  data |-> "null",   resultImgUrl |-> None, maskImgUrl |-> None] }
    \cup [parses : {TRUE}, data : {"object"}, resultImgUrl : {None, ResultUrl},
          maskImgUrl : {None, MaskUrl}]

ErrorStatuses == {201, 400, 401, 403, 500, 504}
ErrorBodies   == {"", "bad token", "upstream request timeout"}
ExceptionTexts == {"Cannot connect to host changeclothesai.online:443 ssl:default",
                   "Server disconnected"}

(***************************************************************************)
(* main(), lines 136-484: one script run per browser event.                *)
(***************************************************************************)
NoFile == [name |-> None, ok |-> FALSE, mode |-> None, size |-> <<0, 0>>]

ModelFiles ==
    { [name |-> "model.png", ok |-> TRUE, mode |-> "RGBA", size |-> <<1122, 748>>],
      [name |-> "model_gray_alpha.png", ok |-> TRUE, mode |-> "LA", size |-> <<600, 800>>],
      [name |-> "model_corrupt.jpg", ok |-> FALSE, mode |-> None, size |-> <<0, 0>>] }

GarmentFiles ==
    { [name |-> "shirt.jpg", ok |-> TRUE, mode |-> "RGB", size |-> <<2048, 1536>>],
      [name |-> "shirt_gray_alpha.png", ok |-> TRUE, mode |-> "LA", size |-> <<400, 400>>] }

Descriptions == {"", "   ", " red silk dress "}

WidgetStates ==
    [model_file : {NoFile} \cup ModelFiles, garment_file : {NoFile} \cup GarmentFiles,
     garment_url : {"", GarmentUrl}, category : Categories, garment_desc : Descriptions]

\* the widgets of a freshly loaded page
DefaultWidgets ==
    [model_file |-> NoFile, garment_file |-> NoFile, garment_url |-> "",
     category |-> "upper_body", garment_desc |-> ""]

\* one interaction changes one widget
OneEdit(w) ==
    ({[w EXCEPT !.model_file = v]   : v \in {NoFile} \cup ModelFiles}
     \cup {[w EXCEPT !.garment_file = v] : v \in {NoFile} \cup GarmentFiles}
     \cup {[w EXCEPT !.garment_url = v]  : v \in {"", GarmentUrl}}
     \cup {[w EXCEPT !.category = v]     : v \in Categories}
     \cup {[w EXCEPT !.garment_desc = v] : v \in Descriptions}) \ {w}

\* what the garment URL's fetch can end in during a run of main()
MainFetches ==
    { f \in UrlFetches :
        \/ f.kind = "timeout"
        \/ /\ f.kind = "response"
           /\ f.status \in {200, 404}
           /\ f.content_type \in {"text/html", "image/png"}
           /\ f.body.ok }

ApiKey == "sk-test-key"

\* lines 220-236: the model file main() keeps (model_file = None when loading raises)
LoadModelFile(file) == IF file.name # None /\ file.ok THEN file ELSE NoFile

\* Normalize, tabulated once over the readable files and bodies of the model
Normalized ==
    [f \in {x \in ModelFiles \cup GarmentFiles \cup UrlBodies : x.ok} |-> Normalize(f)]

\* GarmentImg with a fault: the fetched image re-encoded instead of the URL passed on
GarmentImg_Reencoded(garment_file, garment_url, fetch) ==
    LET uploaded ==
            IF garment_file.name # None /\ garment_file.ok
               /\ ~EncodeRaises(Normalized[garment_file])
            THEN encode_image_to_base64(Normalized[garment_file])
            ELSE None
        ret == validate_image_url(fetch)
    IN  IF Truthy(garment_url) /\ ~Truthy(ret.error) /\ ret.image.src # None
        THEN encode_image_to_base64(Normalized[fetch.body])
        ELSE uploaded

\* lines 245-295: garment_img after both tabs ran
GarmentImg(garment_file, garment_url, fetch) ==
    LET uploaded ==
            IF garment_file.name # None /\ garment_file.ok
               /\ ~EncodeRaises(Normalized[garment_file])
            THEN encode_image_to_base64(Normalized[garment_file])
            ELSE None
        ret == validate_image_url(fetch)
    IN  IF Truthy(garment_url) /\ ~Truthy(ret.error) /\ ret.image.src # None
        THEN garment_url
        ELSE uploaded

\* can_generate with a fault: the processing flag not consulted
can_generate_IgnoresProcessing(model_file, garment_img, processing) ==
    Truthy(model_file.name) /\ Truthy(garment_img)

\* line 341
can_generate(model_file, garment_img, processing) ==
    Truthy(model_file.name) /\ Truthy(garment_img) /\ ~processing

\* lines 357-362: st.button returns True in the run a click of it started; the
\* widget is identified by its label, which differs when can_generate is False
Button(clicked, enabled) == clicked /\ enabled

TimeoutHint == "The AI is very busy right now. Please try again in a moment."
AuthHint    == "Authentication issue. Please contact support."
InputHint   == "Please check your image formats and try again."
GenericHint == "Please try again. If the problem persists, contact support."
SuccessInfo == "Love your new look? Share it with friends and try more outfits!"

\* lines 424-431
ErrorHint(error) ==
    IF Contains(Lower(error), "timeout") THEN TimeoutHint
    ELSE IF Contains(error, "401") \/ Contains(error, "403") THEN AuthHint
    ELSE IF Contains(error, "400") THEN InputHint
    ELSE GenericHint

NoLocal ==
    [model_file |-> NoFile, garment_img |-> None, can_generate |-> FALSE,
     model_img_base64 |-> None]

\* lines 195-370 of one run started with widget values w; clicked: the run was
\* started by a click of the generate button; fetch: what the garment URL's GET
\* ends in
ScriptRun(w, clicked, fetch) ==
    LET processing  == IF session_state.has THEN session_state.processing ELSE FALSE
        model_file  == LoadModelFile(w.model_file)
        garment_img == GarmentImg(w.garment_file, w.garment_url, fetch)
        enabled     == can_generate(model_file, garment_img, processing)
        model_image == Normalized[model_file]
    IN  /\ widgets' = w
        /\ button_enabled' = enabled
        /\ form_data' = NoForm
        /\ posts' = 0
        /\ response' = NoResponse
        /\ result' = NoResult
        /\ hint' = None
        /\ IF ~Button(clicked, enabled)
           THEN \* the button branch is skipped; the run ends at the footer
                /\ session_state' = [has |-> TRUE, processing |-> processing]
                /\ busy_at_press' = FALSE
                /\ local' = NoLocal
                /\ pc' = "idle"
           ELSE \* line 363, then lines 366-370 outside any try
                /\ session_state' = [has |-> TRUE, processing |-> TRUE]
                /\ busy_at_press' = processing
                /\ IF EncodeRaises(model_image)
                   THEN local' = NoLocal /\ pc' = "idle"
                   ELSE /\ local' = [model_file |-> model_file,
                                     garment_img |-> garment_img,
                                     can_generate |-> enabled,
                                     model_img_base64 |-> encode_image_to_base64(model_image)]
                        /\ pc' = "progress"
        /\ UNCHANGED secrets

\* lines 195-200: no API key in the secrets; every run stops there
RunStopsNoKey ==
    /\ pc = "idle"
    /\ secrets = None
    /\ button_enabled' = FALSE
    /\ UNCHANGED <<session_state, widgets, pc, local, form_data, posts, response,
                   result, hint, busy_at_press, secrets>>

\* the page is loaded, or the user changes one widget: a run not started by the button
EditWidget ==
    /\ pc = "idle"
    /\ secrets # None
    /\ \E w \in OneEdit(widgets) \cup {widgets}, fetch \in MainFetches :
          ScriptRun(w, FALSE, fetch)

\* the user clicks the generate button as the last run rendered it
ClickGenerate ==
    /\ pc = "idle"
    /\ secrets # None
    /\ button_enabled
    /\ \E fetch \in MainFetches : ScriptRun(widgets, TRUE, fetch)

\* st.rerun() at line 413: the script starts over with the same widget values
Rerun ==
    /\ pc = "rerun"
    /\ \E fetch \in MainFetches : ScriptRun(widgets, FALSE, fetch)

\* lines 373-396 and 407-417: Streamlit stops the run at one of the st.* calls (the
\* user touched a widget or pressed Stop).  The exception it raises there is no
\* Exception subclass, so line 410 does not catch it and line 474 is not reached.
StopRun ==
    /\ pc \in {"progress", "returned"}
    /\ pc' = "idle"
    /\ local' = NoLocal
    /\ UNCHANGED <<session_state, widgets, button_enabled, form_data, posts, response,
                   result, hint, busy_at_press, secrets>>

\* lines 400-405, 104-114 and 45-54: the client is called and builds its form
StartCall ==
    /\ pc = "progress"
    /\ form_data' = BuildFormData(local.model_img_base64, local.garment_img,
                                  widgets.category, widgets.garment_desc)
    /\ posts' = 0
    /\ pc' = "request"
    /\ UNCHANGED <<session_state, widgets, button_enabled, local, response, result,
                   hint, busy_at_press, secrets>>

\* lines 410-413: the wrapper raises an Exception (the event loop cannot run the call)
CallRaises ==
    /\ pc = "progress"
    /\ session_state' = [session_state EXCEPT !.processing = FALSE]
    /\ local' = NoLocal
    /\ pc' = "rerun"
    /\ UNCHANGED <<widgets, button_enabled, form_data, posts, response, result, hint,
                   busy_at_press, secrets>>

\* line 71: session.post
Post ==
    /\ pc = "request"
    /\ posts' = posts + 1
    /\ pc' = "awaiting"
    /\ UNCHANGED <<session_state, widgets, button_enabled, local, form_data, response,
                   result, hint, busy_at_press, secrets>>

Returned(resp, res) ==
    /\ response' = resp
    /\ result' = res
    /\ pc' = "returned"
    /\ UNCHANGED <<session_state, widgets, button_enabled, local, form_data, posts,
                   hint, busy_at_press, secrets>>

\* lines 72-79
ReceiveOk ==
    /\ pc = "awaiting"
    /\ \E body \in JsonBodies :
          Returned([kind |-> "http", status |-> 200, body |-> body], Http200Result(body))

\* lines 80-87; text = None: response.text() raises on a body it cannot decode,
\* which lands in the except Exception branch of lines 96-102
ReceiveHttpError ==
    /\ pc = "awaiting"
    /\ \E status \in ErrorStatuses, text \in ErrorBodies \cup {None} :
          Returned([kind |-> "http", status |-> status, body |-> text],
                   IF text = None
                   THEN ExceptionResult("'utf-8' codec can't decode byte 0xff in position 0")
                   ELSE HttpErrorResult(status, text))

\* ReceiveTimeout with a fault: the request is tried again after a timeout
ReceiveTimeout_Retry ==
    /\ pc = "awaiting"
    /\ pc' = "request"
    /\ UNCHANGED <<session_state, widgets, button_enabled, local, form_data, posts,
                   response, result, hint, busy_at_press, secrets>>

\* lines 89-95: the 180 s total timeout elapses
ReceiveTimeout ==
    /\ pc = "awaiting"
    /\ Returned([kind |-> "timeout", status |-> 0, body |-> ""], TimeoutResult)

\* lines 96-102
ReceiveException ==
    /\ pc = "awaiting"
    /\ \E e \in ExceptionTexts :
          Returned([kind |-> "exception", status |-> 0, body |-> e], ExceptionResult(e))

\* lines 407-474: the result is shown and the flag reset
ShowResult ==
    /\ pc = "returned"
    /\ hint' = IF Truthy(result.error) THEN ErrorHint(result.error) ELSE SuccessInfo
    /\ session_state' = [session_state EXCEPT !.processing = FALSE]
    /\ local' = NoLocal
    /\ pc' = "idle"
    /\ UNCHANGED <<widgets, button_enabled, form_data, posts, response, result,
                   busy_at_press, secrets>>

MainInit ==
    /\ session_state = [has |-> FALSE, processing |-> FALSE]
    /\ widgets = DefaultWidgets
    /\ button_enabled = FALSE
    /\ pc = "idle"
    /\ local = NoLocal
    /\ form_data = NoForm
    /\ posts = 0
    /\ response = NoResponse
    /\ result = NoResult
    /\ hint = None
    /\ busy_at_press = FALSE

(***************************************************************************)
(* resize_image and the form builder applied to one input each.            *)
(***************************************************************************)
MaxTiny == 2

Dims == (1..MaxTiny) \cup {512, 561, 1023, 1024, 1025, 1122, 1288, 2048, 3000, 4000}

Resize ==
    /\ resize_pc = "start"
    /\ resized_size' = resize_image(image_size)
    /\ resize_pc' = "done"
    /\ UNCHANGED image_size

MaxDescLen == 3

DescChars == {" ", "\t", "a", "b"}

RECURSIVE StringsUpTo(_)
StringsUpTo(n) ==
    IF n = 0 THEN {""}
    ELSE StringsUpTo(n - 1) \cup {s \o c : s \in StringsUpTo(n - 1), c \in DescChars}

BuildForm ==
    /\ desc_pc = "start"
    /\ desc_form' = BuildFormData(desc_in.model_img_base64, desc_in.garment_img,
                                  desc_in.category, desc_in.garment_desc)
    /\ desc_pc' = "built"
    /\ UNCHANGED desc_in

(***************************************************************************)
(* The specifications.                                                     *)
(***************************************************************************)
ResizeIdle == image_size = <<1, 1>> /\ resized_size = <<1, 1>> /\ resize_pc = "off"
DescIdle   == desc_in = NoForm /\ desc_form = NoForm /\ desc_pc = "off"
UrlIdle    == url_fetch = [kind |-> "timeout"] /\ url_pc = "off"
              /\ url_ret = UrlRet(NoImage, None) /\ url_decoded = FALSE
MainIdle   == MainInit /\ secrets = ApiKey

\* one browser session of the app
Init == MainInit /\ secrets \in {None, ApiKey} /\ ResizeIdle /\ DescIdle /\ UrlIdle
Next ==
    \/ RunStopsNoKey /\ UNCHANGED pureVars
    \/ EditWidget /\ UNCHANGED pureVars
    \/ ClickGenerate /\ UNCHANGED pureVars
    \/ Rerun /\ UNCHANGED pureVars
    \/ StopRun /\ UNCHANGED pureVars
    \/ StartCall /\ UNCHANGED pureVars
    \/ CallRaises /\ UNCHANGED pureVars
    \/ Post /\ UNCHANGED pureVars
    \/ ReceiveOk /\ UNCHANGED pureVars
    \/ ReceiveHttpError /\ UNCHANGED pureVars
    \/ ReceiveTimeout /\ UNCHANGED pureVars
    \/ ReceiveException /\ UNCHANGED pureVars
    \/ ShowResult /\ UNCHANGED pureVars
Spec == Init /\ [][Next]_vars

\* resize_image on one image size
ResizeInit ==
    /\ MainIdle /\ DescIdle /\ UrlIdle
    /\ image_size \in Dims \X Dims
    /\ resized_size = <<0, 0>>
    /\ resize_pc = "start"
ResizeNext == Resize /\ UNCHANGED <<mainVars, descVars, urlVars>>
SpecResize == ResizeInit /\ [][ResizeNext]_vars

\* the client's form fields for one description
DescInit ==
    /\ MainIdle /\ ResizeIdle /\ UrlIdle
    /\ desc_in \in [model_img_base64 : {DataUriPrefix \o "model.png@1023x682"},
                    garment_img : {GarmentUrl},
                    category : Categories,
                    garment_desc : StringsUpTo(MaxDescLen) \cup {None}]
    /\ desc_form = NoForm
    /\ desc_pc = "start"
DescNext == BuildForm /\ UNCHANGED <<mainVars, resizeVars, urlVars>>
SpecDesc == DescInit /\ [][DescNext]_vars

\* validate_image_url on one fetch
UrlInit ==
    /\ MainIdle /\ ResizeIdle /\ DescIdle
    /\ url_fetch \in UrlFetches
    /\ url_pc = "get"
    /\ url_ret = UrlRet(NoImage, None)
    /\ url_decoded = FALSE
UrlNext ==
    \/ UrlGet /\ UNCHANGED <<mainVars, resizeVars, descVars>>
    \/ UrlRaiseForStatus /\ UNCHANGED <<mainVars, resizeVars, descVars>>
    \/ UrlCheckContentType /\ UNCHANGED <<mainVars, resizeVars, descVars>>
    \/ UrlDecode /\ UNCHANGED <<mainVars, resizeVars, descVars>>
SpecUrl == UrlInit /\ [][UrlNext]_vars

(***************************************************************************)
(* The properties.                                                         *)
(***************************************************************************)
CallCompleted == response.kind # "none"

\* C1: after a completed call the result never holds both a result URL and an
\* error, and holds neither only when the call ended on the HTTP 200 path with a
\* response that lacks data.resultImgUrl.
C1_ResultXorError ==
    CallCompleted =>
        /\ ~(result.resultImgUrl # None /\ result.error # None)
        /\ (result.resultImgUrl = None /\ result.error = None) =>
               /\ response.kind = "http"
               /\ response.status = 200
               /\ ~(/\ response.body.parses
                    /\ response.body.data = "object"
                    /\ response.body.resultImgUrl # None)

\* C1's case: a 200 response without data.resultImgUrl, mapped to neither URL nor error
C1_Witness ==
    /\ pc = "returned"
    /\ response.kind = "http" /\ response.status = 200
    /\ result.resultImgUrl = None /\ result.error = None

\* C2 as stated: a status S other than 200 whose body reads as the text B gives the
\* error "HTTP <S>: <B>" and no URLs.
C2_HttpPrefix ==
    (CallCompleted /\ response.kind = "http" /\ response.status # 200
                   /\ response.body # None) =>
        /\ result.error = "HTTP " \o ToString(response.status) \o ": " \o response.body
        /\ result.resultImgUrl = None
        /\ result.maskImgUrl = None

\* C2 amended: a status S other than 200 whose body reads as the text B gives the
\* error "API Error <S>: <B>" and no URLs.
C2_ApiErrorPrefix ==
    (CallCompleted /\ response.kind = "http" /\ response.status # 200
                   /\ response.body # None) =>
        /\ result.error = "API Error " \o ToString(response.status) \o ": " \o response.body
        /\ result.resultImgUrl = None
        /\ result.maskImgUrl = None

\* C2's case: 401 with body "bad token"
C2_Witness ==
    /\ pc = "returned"
    /\ response.kind = "http" /\ response.status = 401 /\ response.body = "bad token"
    /\ result.error = "API Error 401: bad token"

\* C3: main() renders the timeout "try again" hint for a failed submission exactly
\* when the submission ended in the timeout outcome.
C3_TimeoutHintIffTimeout ==
    (hint # None /\ Truthy(result.error)) =>
        (hint = TimeoutHint <=> response.kind = "timeout")

InButtonBranch == pc \in {"progress", "request", "awaiting", "returned"}

C5_OneAttempt ==
    /\ posts <= 1
    /\ pc = "request" => (posts = 0 /\ response.kind = "none" /\ result = NoResult)
    /\ pc = "awaiting" => (posts = 1 /\ response.kind = "none")
    /\ pc = "returned" => (posts = 1 /\ response.kind \in {"http", "timeout", "exception"})

\* C5's case: the invocation ended in a timeout after its one POST
C5_Witness == pc = "returned" /\ response.kind = "timeout" /\ posts = 1

AllSpace(s) == \A k \in 1..Len(s) : IsSpace(CharAt(s, k))

\* C6: the form holds garmentDesc iff the description has a non-whitespace
\* character; its value is then the description without its surrounding
\* whitespace; modelImg, garmentImg and category are always there.
C6_GarmentDescIffNonBlank ==
    desc_pc = "built" =>
        LET d       == desc_in.garment_desc
            present == "garmentDesc" \in DOMAIN desc_form
        IN  /\ present <=> (d # None /\ ~AllSpace(d))
            /\ present =>
                   LET v == desc_form["garmentDesc"]
                   IN  /\ v # ""
                       /\ ~IsSpace(CharAt(v, 1))
                       /\ ~IsSpace(CharAt(v, Len(v)))
                       /\ \E i \in 0..Len(d), j \in 0..Len(d) :
                             /\ i <= j
                             /\ AllSpace(SubSeq(d, 1, i))
                             /\ v = SubSeq(d, i + 1, j)
                             /\ AllSpace(SubSeq(d, j + 1, Len(d)))
            /\ {"modelImg", "garmentImg", "category"} \subseteq DOMAIN desc_form
            /\ desc_form["modelImg"] = desc_in.model_img_base64
            /\ desc_form["garmentImg"] = desc_in.garment_img
            /\ desc_form["category"] = desc_in.category

\* C6's case: a description with whitespace on both sides was trimmed
C6_Witness ==
    /\ desc_pc = "built"
    /\ desc_in.garment_desc = " a\t"
    /\ desc_form["garmentDesc"] = "a"

\* C7: in every submission modelImg is the inline payload of the uploaded model
\* file, and garmentImg is either the inline payload of the uploaded garment or the
\* garment URL as typed.
C7_Payloads ==
    (pc \in {"request", "awaiting", "returned"}) =>
        /\ StartsWith(form_data["modelImg"], DataUriPrefix)
        /\ widgets.model_file.ok
        /\ form_data["modelImg"] = encode_image_to_base64(Normalized[widgets.model_file])
        /\ \/ /\ StartsWith(form_data["garmentImg"], DataUriPrefix)
              /\ widgets.garment_file.ok
              /\ form_data["garmentImg"]
                     = encode_image_to_base64(Normalized[widgets.garment_file])
           \/ /\ ~StartsWith(form_data["garmentImg"], DataUriPrefix)
              /\ widgets.garment_url # ""
              /\ form_data["garmentImg"] = widgets.garment_url

\* C7's case: an upload and a URL were both given and the URL was submitted
C7_Witness ==
    /\ pc = "awaiting"
    /\ widgets.garment_file.name # None
    /\ form_data["garmentImg"] = GarmentUrl

UrlDone == url_pc = "done"
UrlFetched == url_fetch.kind = "response"
DeclaredImage ==
    url_fetch.content_type # None /\ StartsWith(url_fetch.content_type, "image/")

\* C8 as stated: the decode is reached only after a 2xx response whose content type
\* begins with image/; a 2xx response without one gives the not-an-image error; a
\* timeout, a network failure and a non-2xx status give their own errors, undecoded.
C8_DecodeOnlyAfter2xx ==
    /\ url_decoded =>
           (UrlFetched /\ url_fetch.status \in 200..299 /\ DeclaredImage)
    /\ (UrlDone /\ UrlFetched /\ url_fetch.status \in 200..299 /\ ~DeclaredImage) =>
           (url_ret.error = UrlNotImageError /\ ~url_decoded)
    /\ (UrlDone /\ url_fetch.kind = "timeout") =>
           (url_ret.error = UrlTimeoutError /\ ~url_decoded)
    /\ (UrlDone /\ (url_fetch.kind = "error"
                    \/ (UrlFetched /\ url_fetch.status \notin 200..299))) =>
           (StartsWith(url_ret.error, UrlFetchErrorPrefix) /\ ~url_decoded)

\* C8 amended: the same with "a status raise_for_status accepts" (any but 4xx and
\* 5xx) for "2xx", and "4xx or 5xx" for "non-2xx".
C8_DecodeOnlyAfterChecks ==
    /\ url_decoded =>
           (UrlFetched /\ url_fetch.status \notin 400..599 /\ DeclaredImage)
    /\ (UrlDone /\ UrlFetched /\ url_fetch.status \notin 400..599 /\ ~DeclaredImage) =>
           (url_ret.error = UrlNotImageError /\ ~url_decoded)
    /\ (UrlDone /\ url_fetch.kind = "timeout") =>
           (url_ret.error = UrlTimeoutError /\ ~url_decoded)
    /\ (UrlDone /\ (url_fetch.kind = "error"
                    \/ (UrlFetched /\ url_fetch.status \in 400..599))) =>
           (StartsWith(url_ret.error, UrlFetchErrorPrefix) /\ ~url_decoded)

\* C8's case: a fetched text/html response was refused undecoded
C8_Witness ==
    /\ UrlDone /\ UrlFetched
    /\ url_fetch.status = 200 /\ url_fetch.content_type = "text/html"
    /\ url_ret.error = UrlNotImageError
    /\ ~url_decoded

\* C9: an image within 1024 x 1024 keeps its size; a larger one comes out with its
\* longer side 1024 and the other side within one pixel of the exact ratio.
C9_ResizeContract ==
    resize_pc = "done" =>
        LET w  == image_size[1]
            h  == image_size[2]
            mx == Max(w, h)
            w2 == resized_size[1]
            h2 == resized_size[2]
        IN  IF mx <= MaxSize THEN resized_size = image_size
            ELSE /\ Max(w2, h2) = MaxSize
                 /\ w2 * mx - w * MaxSize \in (0 - mx)..mx
                 /\ h2 * mx - h * MaxSize \in (0 - mx)..mx

\* C10: whenever no script run is under way the processing flag is false, so the
\* next run can enable the button.
C10_ProcessingReset == pc = "idle" => ~session_state.processing

====
